---- MODULE Spec2Model ----
(***************************************************************************)
(* Model of the pothole detection service: ai-service/detector.py (model   *)
(* resolution, danger classification, ranking) and ai-service/main.py (the *)
(* HTTP handlers and the startup warmup).                                  *)
(*                                                                         *)
(* Units.  A confidence is an integer number of 1e-5 (ConfOne = 1.0), so   *)
(* that round(conf, 4) is a real conversion.  Bounding-box coordinates and *)
(* image dimensions are whole pixels (round(v, 2) leaves those unchanged). *)
(* The float expressions of _classify_danger are evaluated exactly, by     *)
(* cross-multiplication; IEEE rounding of the products is not modelled.    *)
(***************************************************************************)
EXTENDS Integers, Sequences, FiniteSets, TLC

VARIABLES
    local_exists,          \* os.path.exists(LOCAL_TRAINED_MODEL)
    MODEL_PATH,            \* detector.MODEL_PATH ("" when the variable is unset)
    model_path_exists,     \* os.path.exists(MODEL_PATH)
    env_threshold,         \* os.environ["CONFIDENCE_THRESHOLD"], as main.py reads it
    CONFIDENCE_THRESHOLD,  \* detector.CONFIDENCE_THRESHOLD, read at import
    _model,                \* detector._model
    _model_used,           \* detector._model_used
    lifespan,              \* main.lifespan: "off", "pending", "running", "ready", "failed"
    op,                    \* per thread: the entry point it is executing
    pc,                    \* per thread: its position (a line of load_model)
    model_path,            \* per thread: load_model's local model_path
    attempts,              \* per thread: the weight loads of its current resolution
    retval,                \* per thread: what load_model returned to it
    req,                   \* per thread: its request, and the calls made for it
    requests,              \* calls started so far
    chain_runs,            \* how often the body of `if _model is None` was entered
    resp,                  \* the response (or result) produced last
    arg,                   \* input of the pure function under check
    out                    \* its result

vars == <<local_exists, MODEL_PATH, model_path_exists, env_threshold,
          CONFIDENCE_THRESHOLD, _model, _model_used, lifespan, op, pc,
          model_path, attempts, retval, req, requests, chain_runs,
          resp, arg, out>>

(***************************************************************************)
(* Bounds of the model.                                                    *)
(***************************************************************************)
MaxBoxes == 3
MaxRequests == 2

(***************************************************************************)
(* Program constants.                                                      *)
(***************************************************************************)
ConfOne == 100000
CRITICAL_CONFIDENCE == 75000
MODERATE_CONFIDENCE == 50000
CRITICAL_SCORE == 70000
MODERATE_SCORE == 40000
DEFAULT_THRESHOLD == 15000

None == "None"
\* detector._model before any load: no handle.
NoModel == [weights |-> "None", by |-> "nobody"]
LOCAL_TRAINED_MODEL == "models/pothole_finetuned.pt"
HF_URI == "hf://Harisanth/Pothole-Finetuned-YOLOv8/best.pt"
FALLBACK == "yolov8n.pt"

DANGER_LEVELS ==
    [critical |-> [color |-> "red",    priority |-> 1, label |-> "Critical - Immediate Danger"],
     moderate |-> [color |-> "yellow", priority |-> 2, label |-> "Moderate - Needs Attention"],
     minor    |-> [color |-> "green",  priority |-> 3, label |-> "Minor - Monitor"]]

\* Mutant of legacy_severity: medium and low exchanged.
legacy_severity_swapped == [critical |-> "high", moderate |-> "low", minor |-> "medium"]

legacy_severity == [critical |-> "high", moderate |-> "medium", minor |-> "low"]

\* str.lower() on the class labels the model's detector can emit.
Lower(label) ==
    CASE label = "Pothole" -> "pothole"
      [] label = "Manhole" -> "manhole"
      [] label = "D00"     -> "d00"
      [] label = "D10"     -> "d10"
      [] label = "D20"     -> "d20"
      [] label = "D40"     -> "d40"
      [] OTHER             -> label

\* CLASS_MAP.get(raw_label, raw_label.lower())
CLASS_MAP(raw_label) ==
    CASE raw_label = "pothole" -> "pothole"
      [] raw_label = "Pothole" -> "pothole"
      [] raw_label = "D00"     -> "longitudinal_crack"
      [] raw_label = "D10"     -> "transverse_crack"
      [] raw_label = "D20"     -> "alligator_crack"
      [] raw_label = "D40"     -> "pothole"
      [] OTHER                 -> Lower(raw_label)

Max(a, b) == IF a >= b THEN a ELSE b
Min(a, b) == IF a <= b THEN a ELSE b

\* round(conf, 4): to the nearest multiple of 1e-4.  On an exact decimal tie
\* (r = 5) the double's binary expansion decides in Python; the detectors of
\* this model emit no such confidence.
Round4(conf) ==
    LET q == conf \div 10
        r == conf % 10
    IN  IF r < 5 THEN 10 * q
        ELSE IF r > 5 THEN 10 * (q + 1)
        ELSE IF q % 2 = 0 THEN 10 * q ELSE 10 * (q + 1)

\* Mutant of _compute_bbox_area: the sides are not clamped at 0.
compute_bbox_area_signed(bbox) ==
    IF Len(bbox) < 4 THEN 0
    ELSE (bbox[3] - bbox[1]) * (bbox[4] - bbox[2])

\* Lines 136-140: 0.0 for a box of fewer than four coordinates, else
\* max(0, x2 - x1) * max(0, y2 - y1).
_compute_bbox_area(bbox) ==
    IF Len(bbox) < 4 THEN 0
    ELSE Max(0, bbox[3] - bbox[1]) * Max(0, bbox[4] - bbox[2])

image_area(image_width, image_height) == Max(image_width * image_height, 1)

\* min(area_ratio / 0.15, 1.0) as the fraction CappedNum / CappedDen,
\* area_ratio / 0.15 being 20 * bbox_area / (3 * image_area).
CappedDen(image_width, image_height) == 3 * image_area(image_width, image_height)
\* Mutant of CappedNum: the ratio is capped at 2.0, not at 1.0.
CappedNumAtTwo(bbox, image_width, image_height) ==
    Min(20 * _compute_bbox_area(bbox), 2 * CappedDen(image_width, image_height))

CappedNum(bbox, image_width, image_height) ==
    Min(20 * _compute_bbox_area(bbox), CappedDen(image_width, image_height))

\* danger_score * 10 * CappedDen, in confidence units:
\* confidence * 0.7 + min(area_ratio / 0.15, 1.0) * 0.3
danger_score(confidence, bbox, image_width, image_height) ==
    7 * confidence * CappedDen(image_width, image_height)
      + 3 * ConfOne * CappedNum(bbox, image_width, image_height)

\* danger_score >= threshold
ScoreAtLeast(confidence, bbox, image_width, image_height, threshold) ==
    danger_score(confidence, bbox, image_width, image_height)
        >= 10 * threshold * CappedDen(image_width, image_height)

\* Mutant of _classify_danger: the confidence thresholds compared with > .
classify_danger_strict(confidence, bbox, image_width, image_height) ==
    IF confidence > CRITICAL_CONFIDENCE
       \/ ScoreAtLeast(confidence, bbox, image_width, image_height, CRITICAL_SCORE)
    THEN "critical"
    ELSE IF confidence > MODERATE_CONFIDENCE
            \/ ScoreAtLeast(confidence, bbox, image_width, image_height, MODERATE_SCORE)
         THEN "moderate"
         ELSE "minor"

_classify_danger(confidence, bbox, image_width, image_height) ==
    IF confidence >= CRITICAL_CONFIDENCE
       \/ ScoreAtLeast(confidence, bbox, image_width, image_height, CRITICAL_SCORE)
    THEN "critical"
    ELSE IF confidence >= MODERATE_CONFIDENCE
            \/ ScoreAtLeast(confidence, bbox, image_width, image_height, MODERATE_SCORE)
         THEN "moderate"
         ELSE "minor"

\* One iteration of detect's loop over the boxes: the record it appends.
ClassifiedDetection(raw, img_width, img_height) ==
    LET danger == _classify_danger(raw.conf, raw.xyxy, img_width, img_height)
    IN  [defect_type     |-> CLASS_MAP(raw.raw_label),
         raw_class       |-> raw.raw_label,
         confidence      |-> Round4(raw.conf),
         danger_level    |-> danger,
         danger_label    |-> DANGER_LEVELS[danger].label,
         danger_priority |-> DANGER_LEVELS[danger].priority,
         severity        |-> legacy_severity[danger],
         bbox            |-> raw.xyxy]

\* Mutant of KeyLess: the key is the priority alone.
KeyLessPriorityOnly(a, b) == a.danger_priority < b.danger_priority

\* Mutant of KeyLess: keys compared with <=, so an element overtakes its
\* ties.
KeyLessOrEqual(a, b) ==
    \/ a.danger_priority < b.danger_priority
    \/ a.danger_priority = b.danger_priority /\ (0 - a.confidence) <= (0 - b.confidence)

\* The sort key (x["danger_priority"], -x["confidence"]), compared as tuples.
KeyLess(a, b) ==
    \/ a.danger_priority < b.danger_priority
    \/ a.danger_priority = b.danger_priority /\ (0 - a.confidence) < (0 - b.confidence)

\* list.sort(key=...) is stable: an element goes behind every element whose
\* key is not greater than its own.
RECURSIVE InsertByKey(_, _)
InsertByKey(d, sorted) ==
    IF sorted = <<>> THEN <<d>>
    ELSE IF KeyLess(d, Head(sorted)) THEN <<d>> \o sorted
         ELSE <<Head(sorted)>> \o InsertByKey(d, Tail(sorted))

RECURSIVE SortDetections(_)
SortDetections(dets) ==
    IF dets = <<>> THEN <<>>
    ELSE InsertByKey(dets[Len(dets)], SortDetections(SubSeq(dets, 1, Len(dets) - 1)))

\* An Optional field: Null is Python's None, Some(v) a value.
Null == <<>>
Some(v) == <<v>>

\* Mutant of DetectResult: the primary is the first box emitted, not the
\* head of the sorted list.
DetectResultFirstEmitted(boxes, img_width, img_height) ==
    IF Len(boxes) = 0
    THEN [defect_type |-> Null, raw_class |-> Null, confidence |-> Some(0),
          danger_level |-> Null, danger_label |-> Null, danger_priority |-> Null,
          severity |-> Null, bbox |-> Null, all_detections |-> <<>>]
    ELSE LET all_detections ==
                 SortDetections([i \in 1..Len(boxes) |->
                                    ClassifiedDetection(boxes[i], img_width, img_height)])
             best == ClassifiedDetection(boxes[1], img_width, img_height)
         IN  [defect_type |-> Some(best.defect_type),
              raw_class |-> Some(best.raw_class),
              confidence |-> Some(best.confidence),
              danger_level |-> Some(best.danger_level),
              danger_label |-> Some(best.danger_label),
              danger_priority |-> Some(best.danger_priority),
              severity |-> Some(best.severity),
              bbox |-> Some(best.bbox),
              all_detections |-> all_detections]

\* Mutant of DetectResult: the result without detections carries a default
\* severity.
DetectResultEmptySeverityLow(boxes, img_width, img_height) ==
    IF Len(boxes) = 0
    THEN [defect_type |-> Null, raw_class |-> Null, confidence |-> Some(0),
          danger_level |-> Null, danger_label |-> Null, danger_priority |-> Null,
          severity |-> Some("low"), bbox |-> Null, all_detections |-> <<>>]
    ELSE LET all_detections ==
                 SortDetections([i \in 1..Len(boxes) |->
                                    ClassifiedDetection(boxes[i], img_width, img_height)])
             best == all_detections[1]
         IN  [defect_type |-> Some(best.defect_type),
              raw_class |-> Some(best.raw_class),
              confidence |-> Some(best.confidence),
              danger_level |-> Some(best.danger_level),
              danger_label |-> Some(best.danger_label),
              danger_priority |-> Some(best.danger_priority),
              severity |-> Some(best.severity),
              bbox |-> Some(best.bbox),
              all_detections |-> all_detections]

\* detect(), from the detector's boxes on: the dict it returns.
DetectResult(boxes, img_width, img_height) ==
    IF Len(boxes) = 0
    THEN [defect_type |-> Null, raw_class |-> Null, confidence |-> Some(0),
          danger_level |-> Null, danger_label |-> Null, danger_priority |-> Null,
          severity |-> Null, bbox |-> Null, all_detections |-> <<>>]
    ELSE LET all_detections ==
                 SortDetections([i \in 1..Len(boxes) |->
                                    ClassifiedDetection(boxes[i], img_width, img_height)])
             best == all_detections[1]
         IN  [defect_type |-> Some(best.defect_type),
              raw_class |-> Some(best.raw_class),
              confidence |-> Some(best.confidence),
              danger_level |-> Some(best.danger_level),
              danger_label |-> Some(best.danger_label),
              danger_priority |-> Some(best.danger_priority),
              severity |-> Some(best.severity),
              bbox |-> Some(best.bbox),
              all_detections |-> all_detections]

(***************************************************************************)
(* Inputs of the pure functions.                                           *)
(***************************************************************************)
\* Confidences around every threshold of the classification: 0.75 and 0.50,
\* 4/7 and 1/7 (where 0.7 * c + 0.3 crosses 0.70 and 0.40), and values whose
\* fourth decimal changes under rounding.
ConfInputs ==
    {0, 14285, 14286, 20000, 30000, 30004, 49999, 50000, 57142, 57143,
     65000, 74996, 74999, 75000, 90000, 100000}

\* Boxes: empty, small, a fifth of a 10 x 10 image, 7 x 7, the whole of a
\* 20 x 20 image, inverted, and with fewer than four coordinates.
BBoxInputs ==
    {<<0, 0, 0, 0>>, <<0, 0, 1, 1>>, <<0, 0, 5, 4>>, <<0, 0, 7, 7>>,
     <<2, 2, 9, 10>>, <<0, 0, 20, 20>>, <<5, 5, 1, 1>>, <<8, 0, 2, 6>>,
     <<0, 0, 5>>, <<>>}

ImageSizes == {<<0, 0>>, <<10, 10>>, <<20, 10>>, <<20, 20>>}

\* The state of the service while a pure function is under check.
Quiescent ==
    /\ local_exists = FALSE
    /\ MODEL_PATH = ""
    /\ model_path_exists = FALSE
    /\ env_threshold = DEFAULT_THRESHOLD
    /\ CONFIDENCE_THRESHOLD = DEFAULT_THRESHOLD
    /\ _model = NoModel
    /\ _model_used = None
    /\ lifespan = "off"
    /\ op = <<>>
    /\ pc = <<>>
    /\ model_path = <<>>
    /\ attempts = <<>>
    /\ retval = <<>>
    /\ req = <<>>
    /\ requests = 0
    /\ chain_runs = 0
    /\ resp = <<>>

ServiceVars ==
    <<local_exists, MODEL_PATH, model_path_exists, env_threshold,
      CONFIDENCE_THRESHOLD, _model, _model_used, lifespan, op, pc,
      model_path, attempts, retval, req, requests, chain_runs, resp>>

(***************************************************************************)
(* _classify_danger as a specification: any input, one application.        *)
(***************************************************************************)
InitClassify ==
    /\ Quiescent
    /\ arg \in [confidence : ConfInputs, bbox : BBoxInputs, size : ImageSizes]
    /\ out = Null

ApplyClassify ==
    /\ out = Null
    /\ out' = Some(_classify_danger(arg.confidence, arg.bbox, arg.size[1], arg.size[2]))
    /\ UNCHANGED <<arg, ServiceVars>>

NextClassify == ApplyClassify

SpecClassify == InitClassify /\ [][NextClassify]_vars

(***************************************************************************)
(* The tail of detect (classification loop, sort, primary) as a            *)
(* specification: any sequence of boxes, one application.                  *)
(***************************************************************************)
\* What the detector can emit: detections of every tier, two that are tied
\* on the reported confidence (0.30004 and 0.3), one reported as 0.75 that
\* is below 0.75, one whose score is exactly 0.70 in a 20 x 20 image.
RawDetections ==
    {[raw_label |-> "Pothole", conf |-> 90000, xyxy |-> <<0, 0, 1, 1>>],
     [raw_label |-> "Pothole", conf |-> 74996, xyxy |-> <<0, 0, 1, 1>>],
     [raw_label |-> "D00",     conf |-> 30000, xyxy |-> <<0, 0, 5, 4>>],
     [raw_label |-> "Pothole", conf |-> 30004, xyxy |-> <<0, 0, 1, 1>>],
     [raw_label |-> "Manhole", conf |-> 20000, xyxy |-> <<0, 0, 1, 1>>],
     [raw_label |-> "D40",     conf |-> 65000, xyxy |-> <<0, 0, 7, 7>>],
     [raw_label |-> "Pothole", conf |-> 50000, xyxy |-> <<0, 0, 0, 0>>],
     [raw_label |-> "Pothole", conf |-> 30000, xyxy |-> <<0, 0, 1, 1>>]}

BoxSeqs(n) == UNION {[1..k -> RawDetections] : k \in 0..n}

DetectSizes == {<<10, 10>>, <<20, 20>>}

InitDetect ==
    /\ Quiescent
    /\ arg \in [boxes : BoxSeqs(MaxBoxes), size : DetectSizes]
    /\ out = Null

ApplyDetect ==
    /\ out = Null
    /\ out' = Some(DetectResult(arg.boxes, arg.size[1], arg.size[2]))
    /\ UNCHANGED <<arg, ServiceVars>>

NextDetect == ApplyDetect

SpecDetect == InitDetect /\ [][NextDetect]_vars

(***************************************************************************)
(* The service: detector.load_model, detector.model_info, detector.detect  *)
(* and the handlers of main.py, one thread per caller.                     *)
(***************************************************************************)
Workers == {"w1", "w2"}
Threads == Workers \cup {"lifespan"}

HF_CACHE == "hf_cache/best.pt"
OVERRIDE == "weights/override.pt"

\* Values of the CONFIDENCE_THRESHOLD environment variable: 0 (every box is
\* kept) and the default 0.15.
Thresholds == {0, DEFAULT_THRESHOLD}

\* Mutant of allowed: text/plain is let through.
allowed_with_text == {"image/jpeg", "image/png", "image/webp", "text/plain"}

allowed == {"image/jpeg", "image/png", "image/webp"}
\* The content types the clients of this model declare: two of the allowed
\* ones and one that is not.
ContentTypes == {"image/jpeg", "image/webp", "text/plain"}

\* What the detector emits for the images of the service model.
ServiceBoxSeqs ==
    {<<>>,
     <<[raw_label |-> "Pothole", conf |-> 90000, xyxy |-> <<0, 0, 1, 1>>]>>,
     <<[raw_label |-> "Manhole", conf |-> 20000, xyxy |-> <<0, 0, 1, 1>>],
       [raw_label |-> "D00",     conf |-> 30000, xyxy |-> <<0, 0, 5, 4>>]>>}

\* model.predict(conf=floor) keeps no box below the floor.
AboveFloor(boxes, floor) == \A k \in 1..Len(boxes) : boxes[k].conf >= floor

\* What Image.open and model.predict can do with an upload: the bytes are
\* no image, predict raises, or predict returns boxes for a 10 x 10 image.
DetectOutcomes ==
    {[decode |-> "failed", predict |-> "none", boxes |-> <<>>, size |-> <<0, 0>>],
     [decode |-> "ok", predict |-> "raised", boxes |-> <<>>, size |-> <<10, 10>>]}
    \cup {[decode |-> "ok", predict |-> "ok", boxes |-> b, size |-> <<10, 10>>] :
              b \in {x \in ServiceBoxSeqs : AboveFloor(x, CONFIDENCE_THRESHOLD)}}

NoResponse ==
    [op |-> "none", ctype |-> "none", status |-> "none", did |-> <<>>,
     raised |-> "none", boxes |-> Null, body |-> Null]

InitEnv ==
    /\ local_exists \in BOOLEAN
    /\ MODEL_PATH \in {"", OVERRIDE}
    /\ model_path_exists \in BOOLEAN
    /\ MODEL_PATH = "" => model_path_exists = FALSE
    /\ env_threshold \in Thresholds
    /\ CONFIDENCE_THRESHOLD = env_threshold

InitThreads ==
    /\ _model = NoModel
    /\ _model_used = None
    /\ op = [t \in Threads |-> "idle"]
    /\ pc = [t \in Threads |-> "idle"]
    /\ model_path = [t \in Threads |-> None]
    /\ attempts = [t \in Threads |-> <<>>]
    /\ retval = [t \in Threads |-> NoModel]
    /\ req = [t \in Threads |-> [ctype |-> "none", did |-> <<>>]]
    /\ requests = 0
    /\ chain_runs = 0
    /\ resp = NoResponse
    /\ arg = Null
    /\ out = Null

\* The service started by uvicorn: the lifespan warmup is still to run.
Init == InitEnv /\ InitThreads /\ lifespan = "pending"

EnvVars == <<local_exists, MODEL_PATH, model_path_exists, env_threshold,
             CONFIDENCE_THRESHOLD>>

\* A call of `entry` by thread t begins: control is at load_model's first line.
Enter(t, entry, ctype, did) ==
    /\ op' = [op EXCEPT ![t] = entry]
    /\ pc' = [pc EXCEPT ![t] = "L80"]
    /\ model_path' = [model_path EXCEPT ![t] = None]
    /\ attempts' = [attempts EXCEPT ![t] = <<>>]
    /\ retval' = [retval EXCEPT ![t] = NoModel]
    /\ req' = [req EXCEPT ![t] = [ctype |-> ctype, did |-> did]]

\* The call is over: the thread is back at rest and its frame is gone.  The
\* record of the warmup's weight loads is kept.
Leave(t) ==
    /\ op' = [op EXCEPT ![t] = "idle"]
    /\ pc' = [pc EXCEPT ![t] = "idle"]
    /\ model_path' = [model_path EXCEPT ![t] = None]
    /\ retval' = [retval EXCEPT ![t] = NoModel]
    /\ req' = [req EXCEPT ![t] = [ctype |-> "none", did |-> <<>>]]
    /\ attempts' = [attempts EXCEPT ![t] = IF t = "lifespan" THEN @ ELSE <<>>]

CanServe(t) ==
    /\ t \in Workers
    /\ op[t] = "idle"
    /\ lifespan \in {"ready", "off"}
    /\ requests < MaxRequests

\* Mutant of LifespanStart: the startup does not call load_model.
LifespanStartWithoutWarmup ==
    /\ lifespan = "pending"
    /\ lifespan' = "ready"
    /\ UNCHANGED <<EnvVars, _model, _model_used, op, pc, model_path, attempts, retval,
                   req, requests, chain_runs, resp, arg, out>>

\* main.lifespan: `load_model()` before the application serves.
LifespanStart ==
    /\ lifespan = "pending"
    /\ lifespan' = "running"
    /\ Enter("lifespan", "load_model", "none", <<>>)
    /\ UNCHANGED <<EnvVars, _model, _model_used, requests, chain_runs, resp, arg, out>>

\* load_model returned: "Model ready", yield.
LifespanReady ==
    /\ lifespan = "running"
    /\ pc["lifespan"] = "ret"
    /\ lifespan' = "ready"
    /\ Leave("lifespan")
    /\ UNCHANGED <<EnvVars, _model, _model_used, requests, chain_runs, resp, arg, out>>

\* load_model raised: the startup fails and no request is served.
LifespanFailed ==
    /\ lifespan = "running"
    /\ pc["lifespan"] = "raised"
    /\ lifespan' = "failed"
    /\ Leave("lifespan")
    /\ UNCHANGED <<EnvVars, _model, _model_used, requests, chain_runs, resp, arg, out>>

(***************************************************************************)
(* load_model, line by line.                                               *)
(***************************************************************************)
Goto(t, line) == pc' = [pc EXCEPT ![t] = line]

Attempt(t, level, outcome) ==
    attempts' = [attempts EXCEPT ![t] = Append(@, [level |-> level, outcome |-> outcome])]

\* Mutant of LoadModel_L80: no `if _model is None`, every call resolves.
LoadModel_L80_always(t) ==
    /\ pc[t] = "L80"
    /\ chain_runs' = chain_runs + 1
    /\ Goto(t, "L82")
    /\ UNCHANGED <<EnvVars, _model, _model_used, lifespan, op, model_path, attempts,
                   retval, req, requests, resp, arg, out>>

\* Line 80: `if _model is None`.
LoadModel_L80(t) ==
    /\ pc[t] = "L80"
    /\ IF _model = NoModel
       THEN /\ chain_runs' = chain_runs + 1
            /\ Goto(t, "L82")
       ELSE /\ chain_runs' = chain_runs
            /\ Goto(t, "L121")
    /\ UNCHANGED <<EnvVars, _model, _model_used, lifespan, op, model_path, attempts,
                   retval, req, requests, resp, arg, out>>

\* Mutant of ChosenPath: MODEL_PATH is looked at first.
ChosenPathOverrideFirst ==
    IF MODEL_PATH # "" /\ model_path_exists THEN MODEL_PATH
    ELSE IF local_exists THEN LOCAL_TRAINED_MODEL
    ELSE None

\* Lines 82-93: the choice of model_path.
ChosenPath ==
    IF local_exists THEN LOCAL_TRAINED_MODEL
    ELSE IF MODEL_PATH # "" /\ model_path_exists THEN MODEL_PATH
    ELSE None

LoadModel_L82(t) ==
    /\ pc[t] = "L82"
    /\ model_path' = [model_path EXCEPT ![t] = ChosenPath]
    /\ Goto(t, IF ChosenPath # None THEN "L96" ELSE "L103")
    /\ UNCHANGED <<EnvVars, _model, _model_used, lifespan, op, attempts, retval, req,
                   requests, chain_runs, resp, arg, out>>

\* Line 96: `_model = YOLO(model_path)`, which may raise.
LoadModel_L96(t) ==
    /\ pc[t] = "L96"
    /\ \E outcome \in {"ok", "load_failed"} :
          /\ Attempt(t, model_path[t], outcome)
          /\ IF outcome = "ok"
             THEN /\ _model' = [weights |-> model_path[t], by |-> t]
                  /\ Goto(t, "L97")
             ELSE /\ _model' = _model
                  /\ Goto(t, "L100")
    /\ UNCHANGED <<EnvVars, _model_used, lifespan, op, model_path, retval, req,
                   requests, chain_runs, resp, arg, out>>

\* Line 97: `_model_used = model_path`.
LoadModel_L97(t) ==
    /\ pc[t] = "L97"
    /\ _model_used' = model_path[t]
    /\ Goto(t, "L103")
    /\ UNCHANGED <<EnvVars, _model, lifespan, op, model_path, attempts, retval, req,
                   requests, chain_runs, resp, arg, out>>

\* Line 100, the except branch: `_model = None`.
LoadModel_L100(t) ==
    /\ pc[t] = "L100"
    /\ _model' = NoModel
    /\ Goto(t, "L103")
    /\ UNCHANGED <<EnvVars, _model_used, lifespan, op, model_path, attempts, retval,
                   req, requests, chain_runs, resp, arg, out>>

\* Line 103: `if _model is None`.
LoadModel_L103(t) ==
    /\ pc[t] = "L103"
    /\ Goto(t, IF _model = NoModel THEN "L105" ELSE "L112")
    /\ UNCHANGED <<EnvVars, _model, _model_used, lifespan, op, model_path, attempts,
                   retval, req, requests, chain_runs, resp, arg, out>>

\* Mutant of LoadModel_L105: no `except Exception: pass`, a failure leaves
\* load_model.
LoadModel_L105_propagates(t) ==
    /\ pc[t] = "L105"
    /\ \E outcome \in {"ok", "download_failed", "load_failed"} :
          /\ Attempt(t, HF_URI, outcome)
          /\ IF outcome = "ok"
             THEN /\ _model' = [weights |-> HF_CACHE, by |-> t]
                  /\ Goto(t, "L107")
             ELSE /\ _model' = _model
                  /\ Goto(t, "raised")
    /\ UNCHANGED <<EnvVars, _model_used, lifespan, op, model_path, retval, req,
                   requests, chain_runs, resp, arg, out>>

\* Lines 105-106: `_download_hf_model()` and `_model = YOLO(hf_path)`; either
\* may raise, and `except Exception: pass` absorbs it.
LoadModel_L105(t) ==
    /\ pc[t] = "L105"
    /\ \E outcome \in {"ok", "download_failed", "load_failed"} :
          /\ Attempt(t, HF_URI, outcome)
          /\ IF outcome = "ok"
             THEN /\ _model' = [weights |-> HF_CACHE, by |-> t]
                  /\ Goto(t, "L107")
             ELSE /\ _model' = _model
                  /\ Goto(t, "L112")
    /\ UNCHANGED <<EnvVars, _model_used, lifespan, op, model_path, retval, req,
                   requests, chain_runs, resp, arg, out>>

\* Line 107: `_model_used = f"hf://{HF_REPO}/{HF_FILENAME}"`.
LoadModel_L107(t) ==
    /\ pc[t] = "L107"
    /\ _model_used' = HF_URI
    /\ Goto(t, "L112")
    /\ UNCHANGED <<EnvVars, _model, lifespan, op, model_path, attempts, retval, req,
                   requests, chain_runs, resp, arg, out>>

\* Mutant of LoadModel_L112: a failed hub attempt is repeated once before
\* the fallback is tried.
LoadModel_L112_retries_hub(t) ==
    /\ pc[t] = "L112"
    /\ Goto(t, IF _model # NoModel THEN "L118"
               ELSE IF Cardinality({k \in 1..Len(attempts[t]) :
                                       attempts[t][k].level = HF_URI}) < 2
               THEN "L105"
               ELSE "L115")
    /\ UNCHANGED <<EnvVars, _model, _model_used, lifespan, op, model_path, attempts,
                   retval, req, requests, chain_runs, resp, arg, out>>

\* Line 112: `if _model is None`.
LoadModel_L112(t) ==
    /\ pc[t] = "L112"
    /\ Goto(t, IF _model = NoModel THEN "L115" ELSE "L118")
    /\ UNCHANGED <<EnvVars, _model, _model_used, lifespan, op, model_path, attempts,
                   retval, req, requests, chain_runs, resp, arg, out>>

\* Line 115: `_model = YOLO(fallback)`, outside any try: a failure (the
\* weights are neither on disk nor downloadable) leaves load_model.
LoadModel_L115(t) ==
    /\ pc[t] = "L115"
    /\ \E outcome \in {"ok", "load_failed"} :
          /\ Attempt(t, FALLBACK, outcome)
          /\ IF outcome = "ok"
             THEN /\ _model' = [weights |-> FALLBACK, by |-> t]
                  /\ Goto(t, "L116")
             ELSE /\ _model' = _model
                  /\ Goto(t, "raised")
    /\ UNCHANGED <<EnvVars, _model_used, lifespan, op, model_path, retval, req,
                   requests, chain_runs, resp, arg, out>>

\* Line 116: `_model_used = fallback`.
LoadModel_L116(t) ==
    /\ pc[t] = "L116"
    /\ _model_used' = FALLBACK
    /\ Goto(t, "L118")
    /\ UNCHANGED <<EnvVars, _model, lifespan, op, model_path, attempts, retval, req,
                   requests, chain_runs, resp, arg, out>>

\* Line 118: `_model.names`, an AttributeError if _model is None by now.
LoadModel_L118(t) ==
    /\ pc[t] = "L118"
    /\ Goto(t, IF _model = NoModel THEN "raised" ELSE "L121")
    /\ UNCHANGED <<EnvVars, _model, _model_used, lifespan, op, model_path, attempts,
                   retval, req, requests, chain_runs, resp, arg, out>>

\* Line 121: `return _model`.
LoadModel_L121(t) ==
    /\ pc[t] = "L121"
    /\ retval' = [retval EXCEPT ![t] = _model]
    /\ Goto(t, "ret")
    /\ UNCHANGED <<EnvVars, _model, _model_used, lifespan, op, model_path, attempts,
                   req, requests, chain_runs, resp, arg, out>>

load_model(t) ==
    \/ LoadModel_L80(t)
    \/ LoadModel_L82(t)
    \/ LoadModel_L96(t)
    \/ LoadModel_L97(t)
    \/ LoadModel_L100(t)
    \/ LoadModel_L103(t)
    \/ LoadModel_L105(t)
    \/ LoadModel_L107(t)
    \/ LoadModel_L112(t)
    \/ LoadModel_L115(t)
    \/ LoadModel_L116(t)
    \/ LoadModel_L118(t)
    \/ LoadModel_L121(t)

(***************************************************************************)
(* detector.model_info and the handlers /health and /model-info.           *)
(***************************************************************************)
\* The answer of a call: its status, the calls made for it in order (did),
\* the call that raised if one did, what predict returned (boxes) and the
\* body sent.
Respond(t, status, did, raised, boxes, body) ==
    resp' = [op |-> op[t], ctype |-> req[t].ctype, status |-> status,
             did |-> did, raised |-> raised, boxes |-> boxes, body |-> body]

\* model_info's dict, `model` being what load_model returned (lines 127-133).
model_info(model) ==
    [model_path |-> IF _model_used # None THEN _model_used
                    ELSE IF MODEL_PATH # "" THEN MODEL_PATH
                    ELSE HF_URI,
     is_custom_trained |-> local_exists,
     class_names |-> model.weights,   \* model.names: those of the weights loaded
     confidence_threshold |-> CONFIDENCE_THRESHOLD,
     danger_levels |-> <<"critical", "moderate", "minor">>]

\* GET /health: model_info() is called, so load_model is.
health(t) ==
    /\ CanServe(t)
    /\ requests' = requests + 1
    /\ Enter(t, "health", "none", <<"load_model">>)
    /\ UNCHANGED <<EnvVars, _model, _model_used, lifespan, chain_runs, resp, arg, out>>

\* GET /model-info
get_model_info(t) ==
    /\ CanServe(t)
    /\ requests' = requests + 1
    /\ Enter(t, "model_info", "none", <<"load_model">>)
    /\ UNCHANGED <<EnvVars, _model, _model_used, lifespan, chain_runs, resp, arg, out>>

\* load_model is back in model_info: the handler answers.  An exception
\* (load_model raised, or `model.names` on None) is the framework's 500.
ModelInfoReturn(t) ==
    /\ op[t] \in {"health", "model_info"}
    /\ pc[t] \in {"ret", "raised"}
    /\ IF pc[t] = "raised" \/ retval[t] = NoModel
       THEN Respond(t, "500", req[t].did, "load_model", Null, Null)
       ELSE Respond(t, "200", req[t].did, "none", Null, Some(model_info(retval[t])))
    /\ Leave(t)
    /\ UNCHANGED <<EnvVars, _model, _model_used, lifespan, requests, chain_runs,
                   arg, out>>

(***************************************************************************)
(* POST /detect: main.detect_defect and detector.detect.                   *)
(***************************************************************************)
\* The detail of main.py's HTTPException for an exception e of detect.
DetectionFailed(e) == [detail |-> <<"Detection failed", e>>]

\* Lines 109-117 of main.py: the content type check, then the upload is
\* read and detect is called, whose first statement calls load_model.
detect_defect(t) ==
    /\ CanServe(t)
    /\ requests' = requests + 1
    /\ \E ctype \in ContentTypes :
          IF ctype \notin allowed
          THEN /\ resp' = [op |-> "detect", ctype |-> ctype,
                           status |-> "400", did |-> <<>>,
                           raised |-> "HTTPException", boxes |-> Null,
                           body |-> Some([detail |-> <<"Unsupported type", ctype>>])]
               /\ UNCHANGED <<op, pc, model_path, attempts, retval, req>>
          ELSE /\ Enter(t, "detect", ctype, <<"read", "load_model">>)
               /\ resp' = resp
    /\ UNCHANGED <<EnvVars, _model, _model_used, lifespan, chain_runs, arg, out>>

\* Mutant of DetectReturn: a predict that raised is called a second time.
DetectReturnRetries(t) ==
    /\ op[t] = "detect"
    /\ pc[t] \in {"ret", "raised"}
    /\ IF pc[t] = "raised"
       THEN Respond(t, "500", req[t].did, "load_model", Null,
                    Some(DetectionFailed("load_model")))
       ELSE \E outcome \in DetectOutcomes, again \in DetectOutcomes :
               IF outcome.decode = "failed"
               THEN Respond(t, "500", req[t].did \o <<"Image.open">>, "Image.open",
                            Null, Some(DetectionFailed("Image.open")))
               ELSE IF retval[t] = NoModel
               THEN Respond(t, "500", req[t].did \o <<"Image.open">>, "AttributeError",
                            Null, Some(DetectionFailed("AttributeError")))
               ELSE IF outcome.predict = "raised" /\ again.predict # "ok"
               THEN Respond(t, "500",
                            req[t].did \o <<"Image.open", "predict", "predict">>,
                            "predict", Null, Some(DetectionFailed("predict")))
               ELSE LET final == IF outcome.predict = "raised" THEN again ELSE outcome
                        result == DetectResult(final.boxes, final.size[1],
                                               final.size[2])
                    IN  Respond(t, "200",
                                req[t].did \o (IF outcome.predict = "raised"
                                               THEN <<"Image.open", "predict", "predict">>
                                               ELSE <<"Image.open", "predict">>),
                                "none", Some(final.boxes),
                                Some([result |-> result,
                                      is_valid |-> result.confidence[1] >= env_threshold]))
    /\ Leave(t)
    /\ UNCHANGED <<EnvVars, _model, _model_used, lifespan, requests, chain_runs,
                   arg, out>>

\* detect from line 185 on and main.py lines 119-126: Image.open, predict,
\* the result, is_valid against the threshold read from the environment; any
\* exception is answered 500 with the exception's text.
DetectReturn(t) ==
    /\ op[t] = "detect"
    /\ pc[t] \in {"ret", "raised"}
    /\ IF pc[t] = "raised"
       THEN Respond(t, "500", req[t].did, "load_model", Null,
                    Some(DetectionFailed("load_model")))
       ELSE \E outcome \in DetectOutcomes :
               IF outcome.decode = "failed"
               THEN Respond(t, "500", req[t].did \o <<"Image.open">>, "Image.open",
                            Null, Some(DetectionFailed("Image.open")))
               ELSE IF retval[t] = NoModel
               THEN Respond(t, "500", req[t].did \o <<"Image.open">>, "AttributeError",
                            Null, Some(DetectionFailed("AttributeError")))
               ELSE IF outcome.predict = "raised"
               THEN Respond(t, "500", req[t].did \o <<"Image.open", "predict">>,
                            "predict", Null, Some(DetectionFailed("predict")))
               ELSE LET result == DetectResult(outcome.boxes, outcome.size[1],
                                               outcome.size[2])
                    IN  Respond(t, "200", req[t].did \o <<"Image.open", "predict">>,
                                "none", Some(outcome.boxes),
                                Some([result |-> result,
                                      is_valid |-> result.confidence[1] >= env_threshold]))
    /\ Leave(t)
    /\ UNCHANGED <<EnvVars, _model, _model_used, lifespan, requests, chain_runs,
                   arg, out>>

Next ==
    \/ LifespanStart
    \/ LifespanReady
    \/ LifespanFailed
    \/ \E t \in Threads : load_model(t)
    \/ \E t \in Workers : health(t)
    \/ \E t \in Workers : get_model_info(t)
    \/ \E t \in Workers : ModelInfoReturn(t)
    \/ \E t \in Workers : detect_defect(t)
    \/ \E t \in Workers : DetectReturn(t)

Spec == Init /\ [][Next]_vars

(***************************************************************************)
(* The service in a process whose environment changes while it runs:       *)
(* os.environ is writable by any code of the process, and main.py line 119 *)
(* reads CONFIDENCE_THRESHOLD from it on every request.                    *)
(***************************************************************************)
SetEnvThreshold ==
    /\ \E v \in Thresholds \ {env_threshold} : env_threshold' = v
    /\ UNCHANGED <<local_exists, MODEL_PATH, model_path_exists, CONFIDENCE_THRESHOLD,
                   _model, _model_used, lifespan, op, pc, model_path, attempts,
                   retval, req, requests, chain_runs, resp, arg, out>>

NextEnv ==
    \/ LifespanStart
    \/ LifespanReady
    \/ LifespanFailed
    \/ \E t \in Threads : load_model(t)
    \/ \E t \in Workers : health(t)
    \/ \E t \in Workers : get_model_info(t)
    \/ \E t \in Workers : ModelInfoReturn(t)
    \/ \E t \in Workers : detect_defect(t)
    \/ \E t \in Workers : DetectReturn(t)
    \/ SetEnvThreshold

SpecEnv == Init /\ [][NextEnv]_vars

(***************************************************************************)
(* The detector module without the warmup (the lifespan is not run, or the *)
(* module is used directly, as test_detector.py does): the first callers   *)
(* of load_model, model_info and detect resolve the model themselves.      *)
(***************************************************************************)
InitLazy == InitEnv /\ InitThreads /\ lifespan = "off"

\* A direct call of load_model.
CallLoadModel(t) ==
    /\ CanServe(t)
    /\ requests' = requests + 1
    /\ Enter(t, "load_model", "none", <<"load_model">>)
    /\ UNCHANGED <<EnvVars, _model, _model_used, lifespan, chain_runs, resp, arg, out>>

LoadModelReturn(t) ==
    /\ t \in Workers
    /\ op[t] = "load_model"
    /\ pc[t] \in {"ret", "raised"}
    /\ IF pc[t] = "raised"
       THEN Respond(t, "raised", req[t].did, "load_model", Null, Null)
       ELSE Respond(t, "returned", req[t].did, "none", Null, Some(retval[t]))
    /\ Leave(t)
    /\ UNCHANGED <<EnvVars, _model, _model_used, lifespan, requests, chain_runs,
                   arg, out>>

\* detect enters load_model as model_info does; the callers of this
\* specification are those of load_model and model_info.
NextLazy ==
    \/ \E t \in Workers : CallLoadModel(t)
    \/ \E t \in Workers : LoadModelReturn(t)
    \/ \E t \in Workers : load_model(t)
    \/ \E t \in Workers : health(t)
    \/ \E t \in Workers : get_model_info(t)
    \/ \E t \in Workers : ModelInfoReturn(t)

SpecLazy == InitLazy /\ [][NextLazy]_vars

(***************************************************************************)
(* Claims.                                                                 *)
(***************************************************************************)
\* The bounding-box area and the score comparison as the claims state them.
ClaimArea(bbox) ==
    IF Len(bbox) < 4 THEN 0
    ELSE (IF bbox[3] > bbox[1] THEN bbox[3] - bbox[1] ELSE 0)
         * (IF bbox[4] > bbox[2] THEN bbox[4] - bbox[2] ELSE 0)

ClaimImageArea(size) == IF size[1] * size[2] < 1 THEN 1 ELSE size[1] * size[2]

\* 0.7 * c + 0.3 * min((a / i) / 0.15, 1) >= thr, thr in confidence units.
ClaimScoreAtLeast(c, a, i, thr) ==
    IF 20 * a >= 3 * i
    THEN 7 * c + 3 * ConfOne >= 10 * thr
    ELSE 21 * c * i + 60 * ConfOne * a >= 30 * thr * i

ClaimTier(c, a, i) ==
    IF c >= 75000 \/ ClaimScoreAtLeast(c, a, i, 70000) THEN "critical"
    ELSE IF c >= 50000 \/ ClaimScoreAtLeast(c, a, i, 40000) THEN "moderate"
    ELSE "minor"

Mapping ==
    {<<"critical", 1, "high">>, <<"moderate", 2, "medium">>, <<"minor", 3, "low">>}

\* C6: every detection record detect returns, the primary and each element
\* of all_detections, pairs danger_level, danger_priority and severity as
\* critical/1/high, moderate/2/medium or minor/3/low.
C6_FixedMapping ==
    out # Null =>
        LET r == out[1]
        IN  /\ \A k \in 1..Len(r.all_detections) :
                   LET d == r.all_detections[k]
                   IN  <<d.danger_level, d.danger_priority, d.severity>> \in Mapping
            /\ r.all_detections # <<>> =>
                   <<r.danger_level[1], r.danger_priority[1], r.severity[1]>> \in Mapping

C6_Witness ==
    /\ out # Null
    /\ {out[1].all_detections[k].severity : k \in 1..Len(out[1].all_detections)}
           = {"high", "medium", "low"}

Count(seq, x) == Cardinality({k \in 1..Len(seq) : seq[k] = x})

\* C7: all_detections holds exactly one record per raw box (the classified
\* detections, none lost or duplicated), in ascending danger_priority and,
\* within one priority, in descending confidence.
C7_Ranking ==
    out # Null /\ arg.boxes # <<>> =>
        LET all == out[1].all_detections
            classified == [k \in 1..Len(arg.boxes) |->
                              ClassifiedDetection(arg.boxes[k], arg.size[1], arg.size[2])]
        IN  /\ Len(all) = Len(arg.boxes)
            /\ \A k \in 1..Len(classified) :
                   Count(all, classified[k]) = Count(classified, classified[k])
            /\ \A a \in 1..Len(all), b \in 1..Len(all) :
                   a < b =>
                      /\ all[a].danger_priority <= all[b].danger_priority
                      /\ all[a].danger_priority = all[b].danger_priority
                            => all[a].confidence >= all[b].confidence

\* Three boxes emitted least dangerous first, two of them of one tier.
C7_Witness ==
    /\ out # Null
    /\ Len(arg.boxes) = 3
    /\ arg.boxes[1].conf = 20000
    /\ arg.boxes[2].conf = 30004
    /\ arg.boxes[3].conf = 90000
    /\ out[1].all_detections[1].confidence = 90000
    /\ out[1].all_detections[2].confidence = 30000
    /\ out[1].all_detections[3].confidence = 20000

\* C8: with all_detections non-empty, the top-level fields of the result
\* equal all_detections[0] field for field, and no detection of the list
\* is more dangerous than the primary.
C8_PrimaryIsHead ==
    out # Null /\ out[1].all_detections # <<>> =>
        LET r == out[1]
            head == r.all_detections[1]
        IN  /\ r.defect_type = Some(head.defect_type)
            /\ r.raw_class = Some(head.raw_class)
            /\ r.confidence = Some(head.confidence)
            /\ r.danger_level = Some(head.danger_level)
            /\ r.danger_label = Some(head.danger_label)
            /\ r.danger_priority = Some(head.danger_priority)
            /\ r.severity = Some(head.severity)
            /\ r.bbox = Some(head.bbox)
            /\ \A k \in 1..Len(r.all_detections) :
                   r.all_detections[k].danger_priority >= r.danger_priority[1]

\* A minor detection emitted before a critical one: the critical one is primary.
C8_Witness ==
    /\ out # Null
    /\ Len(arg.boxes) = 2
    /\ arg.boxes[1].conf = 20000
    /\ arg.boxes[2].conf = 90000
    /\ out[1].danger_level = Some("critical")
    /\ out[1].all_detections[2].danger_level = "minor"

\* The lines of load_model inside `if _model is None`.
ChainLines ==
    {"L82", "L96", "L97", "L100", "L103", "L105", "L107", "L112", "L115", "L116", "L118"}

InChain(t) == pc[t] \in ChainLines

Last(seq) == seq[Len(seq)]

\* The warmup has resolved the model and returned it.
Resolved == lifespan = "ready"

C3_SingleFlight ==
    \A t1 \in Threads, t2 \in Threads : InChain(t1) /\ InChain(t2) => t1 = t2

\* No resolution is in flight and a model is loaded.
ResolutionDone == _model # NoModel /\ \A t \in Threads : ~InChain(t)

\* C4: once resolution has completed, no load_model, /health, /model-info
\* or /detect call changes _model or _model_used or runs the resolution
\* chain again, and every call is returned the same handle.
C4_ResolvedIsFrozen ==
    [][ResolutionDone =>
          /\ _model' = _model
          /\ _model_used' = _model_used
          /\ chain_runs' = chain_runs
          /\ \A t \in Threads : ~InChain(t)'
          /\ \A t \in Threads : pc'[t] = "ret" => retval'[t] = _model]_vars

\* After the warmup two requests were made: /health was answered, and a
\* /detect call has been returned the model.
C4_Witness ==
    /\ ResolutionDone
    /\ requests >= 2
    /\ chain_runs = 1
    /\ resp.op = "health"
    /\ resp.status = "200"
    /\ \E t \in Workers : op[t] = "detect" /\ pc[t] = "ret" /\ retval[t] = _model

\* C9: a request with an allowed content type and a decodable image on
\* which the detector returns no boxes is answered 200 with
\* all_detections = [] and is_valid = false, for every configured value of
\* the confidence threshold.
C9_ZeroDetections ==
    /\ resp.op = "detect"
    /\ resp.ctype \in {"image/jpeg", "image/png", "image/webp"}
    /\ resp.boxes = Some(<<>>)
    => /\ resp.status = "200"
       /\ resp.body[1].result.all_detections = <<>>
       /\ resp.body[1].is_valid = FALSE

\* C10: a /detect request whose content type is not image/jpeg, image/png
\* or image/webp is answered 400 and nothing was done for it: no read, no
\* decode, no load_model, no predict; such a request never enters detect.
C10_UnsupportedMediaType ==
    /\ resp.op = "detect" /\ resp.ctype \notin {"image/jpeg", "image/png", "image/webp"}
       => resp.status = "400" /\ resp.did = <<>>
    /\ \A t \in Workers :
          op[t] = "detect" => req[t].ctype \in {"image/jpeg", "image/png", "image/webp"}

C10_Witness ==
    /\ resp.op = "detect"
    /\ resp.ctype = "text/plain"
    /\ resp.status = "400"
    /\ resp.did = <<>>
    /\ requests = 2

\* The statuses of a client error.
ClientErrors == {"400", "415", "422"}

\* C11: an upload of an allowed content type whose bytes are no image is
\* answered with a client error, not a server error, and without touching
\* the model: decoding comes first, so neither load_model nor predict has
\* been called for the request.
C11_InvalidImageIsClientError ==
    resp.op = "detect" /\ resp.ctype \in allowed /\ resp.raised = "Image.open" =>
        /\ resp.status \in ClientErrors
        /\ Count(resp.did, "load_model") = 0
        /\ Count(resp.did, "predict") = 0

\* C12: every /detect request invokes predict at most once; when predict
\* raises, the request is answered 500 with the exception's text after that
\* single invocation, and the step changes neither the shared model state
\* nor the configuration: the worker is idle again and later requests find
\* what they would have found.
C12_PredictFaultIs500 ==
    [][\A t \in Workers :
          op[t] = "detect" /\ op'[t] = "idle" =>
              /\ Count(resp'.did, "predict") <= 1
              /\ resp'.raised = "predict" =>
                    /\ resp'.status = "500"
                    /\ resp'.body = Some([detail |-> <<"Detection failed", "predict">>])
                    /\ Count(resp'.did, "predict") = 1
                    /\ _model' = _model
                    /\ _model_used' = _model_used
                    /\ CONFIDENCE_THRESHOLD' = CONFIDENCE_THRESHOLD
                    /\ lifespan' = lifespan
                    /\ pc'[t] = "idle"]_vars

\* predict raised on the first request, which was answered 500; the model
\* is still loaded and the service still takes requests.
C12_Witness ==
    /\ resp.op = "detect"
    /\ resp.raised = "predict"
    /\ resp.status = "500"
    /\ resp.did = <<"read", "load_model", "Image.open", "predict">>
    /\ requests = 1
    /\ _model # NoModel
    /\ \E t \in Workers : CanServe(t)

\* The fields of the result that describe the primary detection.
ScalarFields ==
    {"defect_type", "raw_class", "confidence", "danger_level", "danger_label",
     "danger_priority", "severity", "bbox"}

\* C13 as stated: when all_detections is empty, every detection-scalar
\* field of the result (defect_type, raw_class, confidence, danger_level,
\* danger_label, danger_priority, severity, bbox) is null.
C13_EmptyResultAllNull ==
    out # Null /\ out[1].all_detections = <<>> =>
        \A f \in ScalarFields : out[1][f] = Null

\* C13 as amended: when all_detections is empty, confidence is 0.0 and every
\* other detection-scalar field is null; defect_type is null exactly when
\* all_detections is empty, so a consumer recognises "no detection" by it.
C13_EmptyResultNullButConfidence ==
    out # Null =>
        /\ out[1].all_detections = <<>> =>
              /\ \A f \in ScalarFields \ {"confidence"} : out[1][f] = Null
              /\ out[1].confidence = Some(0)
        /\ out[1].defect_type = Null <=> out[1].all_detections = <<>>

\* detect was given no box and has returned.
C13_Witness ==
    /\ out # Null
    /\ arg.boxes = <<>>
    /\ out[1].all_detections = <<>>
    /\ out[1].defect_type = Null
    /\ out[1].confidence = Some(0)

\* The number of the level a weights path belongs to, and whether the level
\* has something to attempt.
Level(path) ==
    CASE path = LOCAL_TRAINED_MODEL -> 1
      [] path = OVERRIDE -> 2
      [] path = HF_URI -> 3
      [] OTHER -> 4

Available(l) ==
    CASE l = 1 -> local_exists
      [] l = 2 -> MODEL_PATH # "" /\ model_path_exists
      [] OTHER -> TRUE

\* C14: the levels are attempted strictly in the order 1 local, 2 override,
\* 3 hub, 4 fallback; a level is attempted exactly when it is available and
\* every lower level attempted has failed (so a failed load of the local
\* file is followed by an attempt of a set and existing override before the
\* hub), and the model in use comes from the attempt that succeeded.
C14_ResolutionOrder ==
    Resolved =>
        LET tried == attempts["lifespan"]
            n == Len(tried)
        IN  /\ \A j, k \in 1..n : j < k => Level(tried[j].level) < Level(tried[k].level)
            /\ \A l \in 1..4 :
                   (\E k \in 1..n : Level(tried[k].level) = l)
                   <=> /\ Available(l)
                       /\ \A k \in 1..n :
                              Level(tried[k].level) < l => tried[k].outcome # "ok"
            /\ n > 0
            /\ tried[n].outcome = "ok"
            /\ _model_used = tried[n].level

\* C15: a failure of the hub level (the download raising, or the downloaded
\* weights failing to load) does not leave load_model: the next thing
\* attempted is the generic fallback, and an exception leaves load_model
\* only from the fallback; within one resolution no level is attempted
\* twice.
C15_HubFailureAbsorbed ==
    \A t \in Threads :
        LET tried == attempts[t]
            n == Len(tried)
        IN  /\ \A j, k \in 1..n : j # k => tried[j].level # tried[k].level
            /\ \A k \in 1..n :
                   tried[k].level = HF_URI /\ tried[k].outcome # "ok" =>
                       IF k = n
                       THEN pc[t] \in {"L112", "L115"}
                       ELSE k + 1 = n /\ tried[n].level = FALLBACK
            /\ pc[t] = "raised" => n > 0 /\ tried[n].level = FALLBACK

\* The download failed and the service runs on the generic fallback.
C15_Witness ==
    /\ Resolved
    /\ attempts["lifespan"] = <<[level |-> HF_URI, outcome |-> "download_failed"],
                                [level |-> FALLBACK, outcome |-> "ok"]>>
    /\ _model.weights = FALLBACK
    /\ _model_used = FALLBACK

\* The source load_model records for a model.
SourceOf(model) == IF model.weights = HF_CACHE THEN HF_URI ELSE model.weights

\* C16: when a call of load_model has ended in failure and no resolution
\* is in progress, the shared state is not partially initialized: either
\* _model and _model_used are both set, the source being that of the model,
\* or neither is set (and the next call resolves afresh).
C16_NoPartialInitialization ==
    /\ \E t \in Threads : pc[t] = "raised"
    /\ \A t \in Threads : ~InChain(t)
    => \/ _model = NoModel /\ _model_used = None
       \/ _model # NoModel /\ _model_used = SourceOf(_model)

\* C17: the configuration is read once at startup, so a change of the
\* environment while the process runs has no effect on a later response:
\* the threshold is_valid is computed with is the value read at startup,
\* the one passed to predict as its floor and reported by /model-info.
C17_ConfigReadOnce ==
    /\ resp.op = "detect" /\ resp.status = "200" =>
           resp.body[1].is_valid
               = (resp.body[1].result.confidence[1] >= CONFIDENCE_THRESHOLD)
    /\ resp.op \in {"health", "model_info"} /\ resp.status = "200" =>
           resp.body[1].confidence_threshold = CONFIDENCE_THRESHOLD

\* C18: detections with equal danger_priority and equal reported
\* confidence appear in all_detections in the order in which the detector
\* emitted them: for every emitted detection, the records tied with it form
\* the same sequence in all_detections as in the emission order.
C18_StableRanking ==
    out # Null =>
        LET all == out[1].all_detections
            classified == [k \in 1..Len(arg.boxes) |->
                              ClassifiedDetection(arg.boxes[k], arg.size[1], arg.size[2])]
        IN  \A k \in 1..Len(classified) :
                LET Tied(d) == /\ d.danger_priority = classified[k].danger_priority
                               /\ d.confidence = classified[k].confidence
                IN  SelectSeq(all, Tied) = SelectSeq(classified, Tied)

\* Two different detections of one tier and one reported confidence, a
\* crack emitted before a pothole, are listed in that order.
C18_Witness ==
    /\ out # Null
    /\ Len(arg.boxes) = 2
    /\ arg.boxes[1].raw_label = "D00" /\ arg.boxes[1].conf = 30000
    /\ arg.boxes[2].raw_label = "Pothole" /\ arg.boxes[2].conf = 30004
    /\ out[1].all_detections[1].raw_class = "D00"
    /\ out[1].all_detections[2].raw_class = "Pothole"
    /\ out[1].all_detections[1].danger_priority = out[1].all_detections[2].danger_priority
    /\ out[1].all_detections[1].confidence = out[1].all_detections[2].confidence

C20_AreaNeverNegative ==
    out # Null =>
        LET b == arg.bbox
            area == _compute_bbox_area(b)
            divisor == image_area(arg.size[1], arg.size[2])
        IN  /\ area >= 0
            /\ Len(b) < 4 => area = 0
            /\ Len(b) >= 4 =>
                  /\ area = (IF b[3] - b[1] > 0 THEN b[3] - b[1] ELSE 0)
                             * (IF b[4] - b[2] > 0 THEN b[4] - b[2] ELSE 0)
                  /\ b[3] < b[1] \/ b[4] < b[2] => area = 0
            /\ area = 0 => out[1] = ClaimTier(arg.confidence, 0, divisor)
            /\ divisor >= 1
            /\ arg.size[1] * arg.size[2] = 0 => divisor = 1

\* An inverted box on an image without dimensions was classified.
C20_Witness ==
    /\ out = Some("minor")
    /\ arg.confidence = 30000
    /\ arg.bbox = <<8, 0, 2, 6>>
    /\ arg.size = <<0, 0>>

\* C21: the is_custom_trained value /model-info returns is derived from the
\* cached handle: it is true exactly when the loaded model was obtained
\* from the local fine-tuned weights file, not when the file merely exists.
C21_CustomTrainedFromHandle ==
    resp.op = "model_info" /\ resp.status = "200" =>
        resp.body[1].is_custom_trained = (_model.weights = LOCAL_TRAINED_MODEL)

\* C22: whenever load_model has returned a model to a caller, _model_used
\* is set and names the source of that model, and the model_path /health
\* and /model-info report is the source of the model they describe, also
\* while another caller is inside the resolution chain.
C22_SourceAlwaysRecorded ==
    /\ \A t \in Threads :
           pc[t] = "ret" /\ retval[t] # NoModel => _model_used = SourceOf(retval[t])
    /\ resp.op \in {"health", "model_info"} /\ resp.status = "200" =>
           resp.body[1].model_path
               = SourceOf([weights |-> resp.body[1].class_names, by |-> "nobody"])

\* C23: resolution runs to completion in the startup phase before any
\* request is handled: a request is only taken once the warmup has
\* returned a model, no request handler is ever inside the resolution
\* chain, the chain runs once, and after a failed startup no request is
\* served.
C23_EagerWarmup ==
    /\ \A t \in Workers :
           /\ ~InChain(t)
           /\ pc[t] # "raised"
           /\ op[t] # "idle" => lifespan = "ready" /\ _model # NoModel
    /\ requests > 0 => lifespan = "ready" /\ _model # NoModel /\ chain_runs = 1
    /\ lifespan = "failed" => requests = 0 /\ resp = NoResponse
    /\ chain_runs <= 1

\* After the warmup a /detect call is inside load_model and is about to be
\* returned the cached model without having resolved anything.
C23_Witness ==
    /\ lifespan = "ready"
    /\ chain_runs = 1
    /\ \E t \in Workers :
           /\ op[t] = "detect"
           /\ pc[t] = "L121"
           /\ attempts[t] = <<>>
====
